---- MODULE Spec2Model ----
(***************************************************************************)
(* A model of the MetaDrive adapter of Scenic                              *)
(* (src/scenic/simulators/metadrive/simulator.py): the MetaDriveSimulation *)
(* object, the scenario objects it drives and the part of the external     *)
(* session (DriveEnv and its engine) that the adapter calls into.          *)
(*                                                                         *)
(* Angles are quarter turns in -2..1 (the range [-pi, pi)), time is in      *)
(* milliseconds, a reward is in units of 1/700 (so that the lane-keeping   *)
(* factor, a multiple of 1/7, and speed/100 are integers).  An optional    *)
(* value (Python's None or a value) is the empty or the one-element tuple. *)
(***************************************************************************)
EXTENDS Integers, Sequences, FiniteSets, TLC

\* ------------------------------------------------------------------ bounds
MaxObjects == 3
MaxControl == 1
MaxSpeed == 2
MaxDestroyCalls == 3
MaxSteps == 2
MaxWalkers == 1
MaxLateral == 8
MaxPosition == 1
MaxTimestepMs == 120

\* ------------------------------------------------------- program constants
\* timestep=0.1, the simulator's default, in milliseconds
DefaultTimestepMs == 100
\* the 0.02 s of  math.ceil(self.timestep / 0.02), in milliseconds
PhysicsStepMs == 20
\* lane_width = 3.5, in quarter metres
LaneWidth == 14
\* return -5, the reward of an ego that has no lane
NoLaneReward == -5
\* reward -= 5.0
CrashPenalty == 5
\* reward += 10.0
SuccessReward == 10
\* ego.position.x >= 300
GoalX == 300

\* ---------------------------------------------------------- optional values
None == << >>
Some(v) == <<v>>
Val(o) == o[1]

\* ------------------------------------------------------------ scenario objects
Kinds == {"car", "truck", "pedestrian", "prop"}
IsCar(k) == k = "car"
IsVehicle(k) == k \in {"car", "truck"}
IsPedestrian(k) == k = "pedestrian"

RECURSIVE SeqsUpTo(_, _)
SeqsUpTo(S, n) ==
  IF n = 0 THEN {<< >>}
  ELSE LET shorter == SeqsUpTo(S, n - 1)
       IN shorter \cup {Append(s, x) : s \in {t \in shorter : Len(t) = n - 1}, x \in S}

Scenes == SeqsUpTo(Kinds, MaxObjects)

Headings == -2 .. 1
Speeds == 1 .. MaxSpeed

VARIABLES
  pc,               \* where the simulation is in its life
  scene,            \* scene.objects: the kind of each scenario object
  timestep,         \* self.timestep, in milliseconds
  error,            \* the exception that a call raised last, "" while none has
  defined_ego,      \* self.defined_ego
  client,           \* self.client: None or the session
  actions,          \* self.actions: the empty dict or entries 0 and 1
  created,          \* how many objects the host has passed to createObjectInSimulator
  metaDriveActor,   \* obj.metaDriveActor of every object
  control,          \* the control every object has collected since its last reset
  heading,          \* obj.heading
  speed,            \* obj.speed
  walking_direction,\* obj._walking_direction
  walking_speed,    \* obj._walking_speed
  engine,           \* the external sessions and their engine
  actors,           \* the actors the engine has created, by id
  handler,          \* the adapter method called last
  calls,            \* the external calls made by the last handler, in order
  destroyCalls,     \* how many times destroy has been called
  scenic_offset,    \* self.scenic_offset, the x of it
  sensed,           \* what get_reward reads of the ego and of its actor
  reward            \* what get_reward returned last

vars == <<pc, scene, timestep, error, defined_ego, client, actions, created,
          metaDriveActor, control, heading, speed, walking_direction,
          walking_speed, engine, actors, handler, calls, destroyCalls,
          scenic_offset, sensed, reward>>

rewardVars == <<scenic_offset, sensed, reward>>

objVars == <<metaDriveActor, control, heading, speed, walking_direction, walking_speed>>

Objects == 1 .. Len(scene)

Call(op, who, a, b, c) == [op |-> op, who |-> who, a |-> a, b |-> b, c |-> c]

\* ------------------------------------------------------------ the external session
\* What the adapter relies on of DriveEnv and its engine: reset brings the engine
\* up and creates the agent vehicle as the engine's first object; spawn_object
\* adds an actor; clear_objects removes the actors named; close shuts the engine
\* down, after which client.engine is None.
NoEngine ==
  [sessions |-> 0, up |-> FALSE, config |-> None, objects |-> << >>,
   spawned |-> {}, resets |-> 0, steps |-> 0, clears |-> 0, closes |-> 0]

Actor(cls, position, session) ==
  [cls |-> cls, position |-> position, session |-> session]

DriveEnv(eng, config) ==
  [eng EXCEPT !.sessions = @ + 1, !.config = Some(config), !.up = FALSE,
              !.objects = << >>, !.spawned = {}]

Reset(eng, id) ==
  [eng EXCEPT !.up = TRUE, !.resets = @ + 1, !.objects = <<id>>, !.spawned = {id}]

SpawnObject(eng, id) ==
  [eng EXCEPT !.objects = Append(@, id), !.spawned = @ \cup {id}]

ClearObjects(eng, ids) ==
  [eng EXCEPT !.objects = SelectSeq(@, LAMBDA a : a \notin ids),
              !.spawned = @ \ ids, !.clears = @ + 1]

Close(eng) == [eng EXCEPT !.up = FALSE, !.closes = @ + 1]

EngineStep(eng) == [eng EXCEPT !.steps = @ + 1]

\* -------------------------------------------------------------- __init__
ErrNoObject == "InvalidScenarioError: Metadrive requires you to define at least one Scenic object."
ErrNotCar == "InvalidScenarioError: The first object must be a car to serve as the ego vehicle in Metadrive."
ErrUnsupported == "SimulationCreationError: Unsupported object type"
ErrKey == "KeyError"

ValidateScene_NoCarCheck(objects) ==
  IF Len(objects) = 0 THEN ErrNoObject ELSE ""

\* The two checks of __init__, in their order; "" when the scene passes both.
ValidateScene(objects) ==
  IF Len(objects) = 0 THEN ErrNoObject
  ELSE IF ~IsCar(objects[1]) THEN ErrNotCar
  ELSE ""

Construct ==
  /\ pc = "new"
  /\ handler' = "__init__"
  /\ calls' = << >>
  /\ error' = ValidateScene(scene)
  /\ IF ValidateScene(scene) # ""
     THEN /\ pc' = "invalid"
          /\ UNCHANGED <<defined_ego, client, actions>>
     ELSE /\ pc' = "setup"
          /\ defined_ego' = FALSE
          /\ client' = None
          /\ actions' = << >>
  /\ UNCHANGED <<scene, timestep, created, objVars, engine, actors, destroyCalls,
                 rewardVars>>

\* ------------------------------------------------ createObjectInSimulator
DecisionRepeat_Floor(t) == t \div PhysicsStepMs

\* math.ceil(self.timestep / 0.02)
DecisionRepeat(t) ==
  IF t % PhysicsStepMs = 0 THEN t \div PhysicsStepMs ELSE t \div PhysicsStepMs + 1

RECURSIVE Gcd(_, _)
Gcd(a, b) == IF b = 0 THEN a ELSE Gcd(b, a % b)

\* self.timestep / decision_repeat, an exact fraction of a millisecond
PhysicsWorldStepSize(t, dr) ==
  LET g == Gcd(t, dr) IN [num |-> t \div g, den |-> dr \div g]

SessionConfig(t) ==
  [decision_repeat |-> DecisionRepeat(t),
   physics_world_step_size |-> PhysicsWorldStepSize(t, DecisionRepeat(t))]

DefinedEgoAfterCreate_Unset == FALSE

\* self.defined_ego = True
DefinedEgoAfterCreate == TRUE

ObjectBranch_NoRaise(k) ==
  IF IsVehicle(k) THEN "vehicle" ELSE "pedestrian"

\* Which of the branches after the ego's an object takes.
ObjectBranch(k) ==
  IF IsVehicle(k) THEN "vehicle"
  ELSE IF IsPedestrian(k) THEN "pedestrian"
  ELSE "unsupported"

PedestrianRef_Unset(id) == None

\* obj.metaDriveActor = metaDriveActor, of the pedestrian branch
PedestrianRef(id) == Some(id)

\* obj.metaDriveActor = metaDriveActor, of the vehicle branch
VehicleRef(id) == Some(id)

\* obj.metaDriveActor = list(metadrive_objects.values())[0]
EgoRef(eng) == Some(Head(eng.objects))

createObjectInSimulator(i) ==
  LET k == scene[i]
      id == Len(actors) + 1
  IN
  IF ~defined_ego
  THEN LET config == SessionConfig(timestep)
           eng == Reset(DriveEnv(engine, config), id)
       IN /\ client' = Some(eng.sessions)
          /\ engine' = eng
          /\ actors' = Append(actors, Actor("DefaultVehicle", IF IsVehicle(k) THEN i ELSE 0,
                                          eng.sessions))
          /\ metaDriveActor' = [metaDriveActor EXCEPT ![i] = EgoRef(eng)]
          /\ defined_ego' = DefinedEgoAfterCreate
          /\ UNCHANGED error
          /\ calls' = <<Call("DriveEnv", eng.sessions, config.decision_repeat, 0, 0),
                        Call("reset", eng.sessions, 0, 0, 0),
                        Call("get_objects", eng.sessions, 0, 0, 0)>>
  ELSE IF ObjectBranch(k) = "vehicle"
  THEN /\ engine' = SpawnObject(engine, id)
       /\ actors' = Append(actors, Actor("DefaultVehicle", i, Val(client)))
       /\ metaDriveActor' = [metaDriveActor EXCEPT ![i] = VehicleRef(id)]
       /\ UNCHANGED error
       /\ calls' = <<Call("spawn_object", Val(client), id, i, 0)>>
       /\ UNCHANGED <<client, defined_ego>>
  ELSE IF ObjectBranch(k) = "pedestrian"
  THEN /\ engine' = SpawnObject(engine, id)
       /\ actors' = Append(actors, Actor("Pedestrian", i, Val(client)))
       /\ metaDriveActor' = [metaDriveActor EXCEPT ![i] = PedestrianRef(id)]
       /\ UNCHANGED error
       /\ calls' = <<Call("spawn_object", Val(client), id, i, 0)>>
       /\ UNCHANGED <<client, defined_ego>>
  ELSE /\ error' = ErrUnsupported
       /\ calls' = << >>
       /\ UNCHANGED <<client, defined_ego, engine, actors, metaDriveActor>>

\* The host's setup passes the objects of the scene, in order, to
\* createObjectInSimulator; an exception ends the simulation.
CreateObject ==
  /\ pc = "setup"
  /\ created < Len(scene)
  /\ createObjectInSimulator(created + 1)
  /\ handler' = "createObjectInSimulator"
  /\ created' = created + 1
  /\ pc' = IF error' # "" THEN "aborted"
           ELSE IF created' = Len(scene) THEN "running" ELSE "setup"
  /\ UNCHANGED <<scene, timestep, actions, control, heading, speed,
                 walking_direction, walking_speed, destroyCalls, rewardVars>>

\* ---------------------------------------------------------- executeActions
\* utils.scenicToMetaDriveHeading: a quarter turn to the left, wrapped to [-pi, pi)
scenicToMetaDriveHeading(h) == ((h + 1 + 2) % 4) - 2

\* math.cos and math.sin of a quarter-turn angle
Cos(q) == CASE q = 0 -> 1 [] q = -2 -> -1 [] OTHER -> 0
Sin(q) == CASE q = 1 -> 1 [] q = -1 -> -1 [] OTHER -> 0

Vehicles == {i \in Objects : IsVehicle(scene[i])}

\* super().executeActions: the host applies the actions the agents chose; a
\* vehicle's action sets the control it has collected (0: no action for it).
ApplyActions(ctl, allActions) ==
  [i \in Objects |->
     IF i \in Vehicles /\ allActions[i] # 0 THEN allActions[i] ELSE ctl[i]]

LatchedDirection_Overwrite(wd, h) == Some(scenicToMetaDriveHeading(h))

\* if obj._walking_direction is None: obj._walking_direction = ...
LatchedDirection(wd, h) ==
  IF wd = None THEN Some(scenicToMetaDriveHeading(h)) ELSE wd

\* if obj._walking_speed is None: obj._walking_speed = obj.speed
LatchedSpeed(ws, s) ==
  IF ws = None THEN Some(s) ELSE ws

\* The calls of the vehicle branch: the collected action goes to the actor,
\* then the control is reset.
VehicleCalls(i, action) ==
  <<Call("before_step", Val(metaDriveActor[i]), action, 0, 0),
    Call("_reset_control", i, 0, 0, 0)>>

\* The call of the other branch, the pedestrians'.
PedestrianCalls(i, wd, ws) ==
  <<Call("set_velocity", Val(metaDriveActor[i]), Cos(Val(wd)), Sin(Val(wd)), Val(ws))>>

\* for obj in self.scene.objects[1:]
RECURSIVE ExecuteCalls(_, _, _, _)
ExecuteCalls(i, ctl, wd, ws) ==
  IF i > Len(scene) THEN << >>
  ELSE (IF IsVehicle(scene[i]) THEN VehicleCalls(i, ctl[i])
        ELSE PedestrianCalls(i, wd[i], ws[i]))
       \o ExecuteCalls(i + 1, ctl, wd, ws)

executeActions(allActions) ==
  LET ctl == ApplyActions(control, allActions)
      others == Objects \ {1}
      wd == [i \in Objects |->
               IF i \in others /\ ~IsVehicle(scene[i])
               THEN LatchedDirection(walking_direction[i], heading[i])
               ELSE walking_direction[i]]
      ws == [i \in Objects |->
               IF i \in others /\ ~IsVehicle(scene[i])
               THEN LatchedSpeed(walking_speed[i], speed[i])
               ELSE walking_speed[i]]
  IN /\ pc = "running"
     /\ handler' = "executeActions"
     /\ walking_direction' = wd
     /\ walking_speed' = ws
     /\ control' = [i \in Objects |->
                      IF i \in others /\ IsVehicle(scene[i]) THEN 0 ELSE ctl[i]]
     /\ calls' = ExecuteCalls(2, ctl, wd, ws)
     /\ UNCHANGED <<pc, scene, timestep, error, defined_ego, client, actions, created,
                    metaDriveActor, heading, speed, engine, actors, destroyCalls,
                    rewardVars>>

\* ------------------------------------------------------------------- step
\* The caller of the simulation stores the ego's action in simulation.actions;
\* __init__ leaves it the empty dict.
SetActions ==
  /\ pc = "running"
  /\ \E a0 \in 0 .. MaxControl :
       /\ actions # <<a0, MaxControl - a0>>
       /\ actions' = <<a0, MaxControl - a0>>
  /\ UNCHANGED <<pc, scene, timestep, error, defined_ego, client, created, objVars,
                 engine, actors, handler, calls, destroyCalls, rewardVars>>

\* The rendering and the sleep that end step change nothing of this state.
step ==
  /\ pc = "running"
  /\ handler' = "step"
  /\ \/ /\ actions = << >>          \* self.actions[0] raises KeyError
        /\ error' = ErrKey
        /\ pc' = "aborted"
        /\ calls' = << >>
        /\ UNCHANGED <<engine, control>>
     \/ /\ actions # << >>
        /\ engine.steps < MaxSteps
        /\ UNCHANGED error
        /\ engine' = EngineStep(engine)
        /\ control' = [control EXCEPT ![1] = 0]
        /\ calls' = <<Call("step", Val(client), actions[1], actions[2], 0),
                      Call("_reset_control", 1, 0, 0, 0)>>
        /\ UNCHANGED pc
  /\ UNCHANGED <<scene, timestep, defined_ego, client, actions, created,
                 metaDriveActor, heading, speed, walking_direction, walking_speed,
                 actors, destroyCalls, rewardVars>>

\* ---------------------------------------------------------- getProperties
\* After a step the host reads an object's properties back from its actor; the
\* values are the engine's.  Only the heading and the speed of the objects that
\* are not vehicles are kept: the adapter reads no others after creation.
updateObjects ==
  /\ pc = "running"
  /\ \E i \in Objects \ Vehicles, h \in Headings, s \in Speeds :
       /\ <<h, s>> # <<heading[i], speed[i]>>
       /\ heading' = [heading EXCEPT ![i] = h]
       /\ speed' = [speed EXCEPT ![i] = s]
  /\ UNCHANGED <<pc, scene, timestep, error, defined_ego, client, actions, created,
                 metaDriveActor, control, walking_direction, walking_speed,
                 engine, actors, handler, calls, destroyCalls, rewardVars>>

\* ----------------------------------------------------------------- destroy
DestroyGuard_ClientOnly == client # None

\* if self.client and self.client.engine
DestroyGuard == client # None /\ engine.up

\* super().destroy() is the host's and leaves the objects and the session alone.
\* The host destroys a simulation when it ends, whatever ended it, and a
\* destroyed simulation may be destroyed again.
destroy ==
  /\ pc \in {"setup", "running", "aborted", "destroyed"}
  /\ destroyCalls < MaxDestroyCalls
  /\ handler' = "destroy"
  /\ IF DestroyGuard
     THEN LET object_ids == engine.spawned
              cleared == IF object_ids # {} THEN ClearObjects(engine, object_ids)
                         ELSE engine
          IN /\ engine' = Close(cleared)
             /\ calls' = (IF object_ids # {}
                          THEN <<Call("clear_objects", Val(client), Cardinality(object_ids), 0, 0)>>
                          ELSE << >>)
                         \o <<Call("close", Val(client), 0, 0, 0)>>
     ELSE /\ calls' = << >>
          /\ UNCHANGED engine
  /\ pc' = "destroyed"
  /\ destroyCalls' = destroyCalls + 1
  /\ UNCHANGED <<scene, timestep, error, defined_ego, client, actions, created,
                 objVars, actors, rewardVars>>

\* -------------------------------------------------------------- get_reward
\* A reward is kept in units of 1/RewardUnit: the lane-keeping factor is a
\* multiple of 1/LaneWidth and 0.1 * (speed / 10) a multiple of 1/100.
RewardUnit == LaneWidth * 50

\* utils.metadriveToScenicPosition, the x of it: a translation by the offset
metadriveToScenicPosition(x, offset) == x - offset

Abs(a) == IF a < 0 THEN -a ELSE a
Min(a, b) == IF a < b THEN a ELSE b
Max(a, b) == IF a > b THEN a ELSE b

clip(a, low, high) == Min(Max(a, low), high)

\* clip(1 - 2 * abs(lateral_now) / lane_width, 0.0, 1.0), in units of 1/LaneWidth
LateralFactor(lateral_now) ==
  clip(LaneWidth - 2 * Abs(lateral_now), 0, LaneWidth)

\* 1 if (road is not None and road.forwardLanes) else -1
PositiveRoad(road) == IF road = "forward" THEN 1 ELSE -1

TerminalAdjust_Cumulative(s) ==
  (IF s.crash_vehicle THEN -CrashPenalty * RewardUnit ELSE 0)
  + (IF s.crash_object THEN -CrashPenalty * RewardUnit ELSE 0)
  + (IF s.crash_sidewalk THEN -CrashPenalty * RewardUnit ELSE 0)
  + (IF s.x >= GoalX THEN SuccessReward * RewardUnit ELSE 0)

\* The if / elif chain that ends get_reward.
TerminalAdjust(s) ==
  IF s.crash_vehicle THEN -CrashPenalty * RewardUnit
  ELSE IF s.crash_object THEN -CrashPenalty * RewardUnit
  ELSE IF s.crash_sidewalk THEN -CrashPenalty * RewardUnit
  ELSE IF s.x >= GoalX THEN SuccessReward * RewardUnit
  ELSE 0

GetReward(s, offset) ==
  IF s.lane = None
  THEN [value |-> NoLaneReward * RewardUnit, lateral_factor |-> None]
  ELSE LET positive_road == PositiveRoad(s.road)
           last_position == metadriveToScenicPosition(s.last_position, offset)
           current_position == metadriveToScenicPosition(s.position, offset)
           lateral_factor == LateralFactor(Val(s.lane))
           moving == 2 * (current_position - last_position) * lateral_factor
                       * positive_road * (RewardUnit \div LaneWidth)
           speeding == s.speed * positive_road * (RewardUnit \div 100)
       IN [value |-> moving + speeding + TerminalAdjust(s),
           lateral_factor |-> Some(lateral_factor)]

get_reward ==
  /\ pc = "running"
  /\ handler' = "get_reward"
  /\ calls' = << >>
  /\ reward' = Some(GetReward(sensed, scenic_offset))
  /\ UNCHANGED <<pc, scene, timestep, error, defined_ego, client, actions, created,
                 objVars, engine, actors, destroyCalls, scenic_offset, sensed>>

\* What get_reward reads: the ego's lane (None, or the signed distance of the
\* current position to its centerline, in quarter metres), its road, the last
\* and the current x of its actor, its speed, the crash flags of its actor and
\* the x of the ego's own position.
Sensed ==
  [lane : {None} \cup {Some(d) : d \in -MaxLateral .. MaxLateral},
   road : {"none", "forward", "backward"},
   last_position : 0 .. MaxPosition,
   position : 0 .. MaxPosition,
   speed : 1 .. MaxSpeed,
   crash_vehicle : BOOLEAN, crash_object : BOOLEAN, crash_sidewalk : BOOLEAN,
   x : {GoalX - 1, GoalX, GoalX + 1}]

NoReading ==
  [lane |-> None, road |-> "none", last_position |-> 0, position |-> 0,
   speed |-> 1, crash_vehicle |-> FALSE, crash_object |-> FALSE,
   crash_sidewalk |-> FALSE, x |-> GoalX - 1]

\* ---------------------------------------------------------- specifications
InitSimulation ==
  /\ pc = "new"
  /\ error = ""
  /\ defined_ego = FALSE
  /\ client = None
  /\ actions = << >>
  /\ created = 0
  /\ metaDriveActor = [i \in Objects |-> None]
  /\ control = [i \in Objects |-> 0]
  /\ walking_direction = [i \in Objects |-> None]
  /\ walking_speed = [i \in Objects |-> None]
  /\ engine = NoEngine
  /\ actors = << >>
  /\ handler = ""
  /\ calls = << >>
  /\ destroyCalls = 0
  /\ reward = None

\* The life of a simulation of any scene, at the default timestep.
Init ==
  /\ scene \in Scenes
  /\ timestep = DefaultTimestepMs
  /\ heading = [i \in Objects |-> 0]
  /\ speed = [i \in Objects |-> 1]
  /\ scenic_offset = 0
  /\ sensed = NoReading
  /\ InitSimulation

Next ==
  \/ Construct
  \/ CreateObject
  \/ \E allActions \in [Vehicles -> 0 .. MaxControl] : executeActions(allActions)
  \/ SetActions
  \/ step
  \/ destroy

Spec == Init /\ [][Next]_vars

\* The session's timestep parameters, for every timestep.
InitTimestep ==
  /\ scene = <<"car">>
  /\ timestep \in 1 .. MaxTimestepMs
  /\ heading = [i \in Objects |-> 0]
  /\ speed = [i \in Objects |-> 1]
  /\ scenic_offset = 0
  /\ sensed = NoReading
  /\ InitSimulation

NextTimestep ==
  \/ Construct
  \/ CreateObject

SpecTimestep == InitTimestep /\ [][NextTimestep]_vars

\* An ego and pedestrians whose heading and speed the engine changes.
WalkScenes ==
  {[i \in 1 .. k + 1 |-> IF i = 1 THEN "car" ELSE "pedestrian"] : k \in 1 .. MaxWalkers}

InitWalk ==
  /\ scene \in WalkScenes
  /\ timestep = DefaultTimestepMs
  /\ heading \in [Objects -> Headings]
  /\ speed \in [Objects -> Speeds]
  /\ \A i \in Vehicles : heading[i] = 0 /\ speed[i] = 1
  /\ scenic_offset = 0
  /\ sensed = NoReading
  /\ InitSimulation

NextWalk ==
  \/ Construct
  \/ CreateObject
  \/ \E allActions \in [Vehicles -> 0 .. MaxControl] : executeActions(allActions)
  \/ updateObjects

SpecWalk == InitWalk /\ [][NextWalk]_vars

\* The reward of every reading of the ego.
InitReward ==
  /\ scene = <<"car">>
  /\ timestep = DefaultTimestepMs
  /\ heading = [i \in Objects |-> 0]
  /\ speed = [i \in Objects |-> 1]
  /\ scenic_offset \in 0 .. MaxPosition
  /\ sensed \in Sensed
  /\ InitSimulation

NextReward ==
  \/ Construct
  \/ CreateObject
  \/ get_reward

SpecReward == InitReward /\ [][NextReward]_vars

\* ------------------------------------------------------------------ claims
CallsOf(op) == {n \in 1 .. Len(calls) : calls[n].op = op}
Constructed == pc # "new"
Unspawned ==
  /\ client = None
  /\ engine = NoEngine
  /\ actors = << >>
  /\ created = 0
  /\ \A i \in Objects : metaDriveActor[i] = None

\* C1: constructing a simulation of a scene with no object fails with
\* InvalidScenarioError (the check made first), and so does constructing one
\* of a scene whose first object is not a car; in both cases no session has
\* been created, client holds none and no object has been spawned.
C1_InvalidSceneRejected ==
  /\ (Constructed /\ Len(scene) = 0) => (pc = "invalid" /\ error = ErrNoObject)
  /\ (Constructed /\ Len(scene) > 0 /\ scene[1] # "car")
       => (pc = "invalid" /\ error = ErrNotCar)
  /\ pc = "invalid" => Unspawned

C1_Witness ==
  pc = "invalid" /\ Len(scene) > 1 /\ scene[1] = "pedestrian" /\ error = ErrNotCar

\* C2: after destroy, the metaDriveActor of every object that was spawned in
\* the simulation is None.
C2_RefsClearedByDestroy ==
  pc = "destroyed" => \A i \in Objects : metaDriveActor[i] = None

\* C3: an object for which createObjectInSimulator has returned normally
\* refers to the actor that the session created for it, and no actor of the
\* engine was spawned for an object whose reference is unset.
ReturnedNormally(i) == i < created \/ (i = created /\ error # ErrUnsupported)

\* C3: every object whose creation returned has the reference to its own
\* actor, and every actor of the engine is referred to by its object.
C3_SpawnedHasRef ==
  /\ \A i \in Objects :
       ReturnedNormally(i) =>
         /\ metaDriveActor[i] # None
         /\ Val(metaDriveActor[i]) \in 1 .. Len(actors)
         /\ actors[Val(metaDriveActor[i])].position = i
  /\ \A a \in 1 .. Len(actors) :
       actors[a].position \in Objects /\ metaDriveActor[actors[a].position] = Some(a)

C3_Witness ==
  /\ created = 3
  /\ scene = <<"car", "pedestrian", "truck">>
  /\ metaDriveActor = <<Some(1), Some(2), Some(3)>>
  /\ actors[2].cls = "Pedestrian"

\* C4: a second destroy leaves the adapter and the session as the first left
\* them (nothing is cleared and the session is not closed again), and a destroy
\* of a simulation that never created a session makes no engine call.
C4_State ==
  /\ engine.closes <= 1
  /\ engine.clears <= 1
  /\ (handler = "destroy" /\ client = None) => (calls = << >> /\ engine = NoEngine)
  /\ (handler = "destroy" /\ destroyCalls >= 2) => calls = << >>

C4_Step ==
  (destroyCalls >= 1 /\ destroyCalls' = destroyCalls + 1) =>
     /\ engine' = engine
     /\ client' = client
     /\ defined_ego' = defined_ego
     /\ actors' = actors
     /\ objVars' = objVars

\* C4: destroy is idempotent, in every state and over every destroy step.
C4_DestroyIdempotent == []C4_State /\ [][C4_Step]_vars

C4_Witness ==
  /\ destroyCalls = 2
  /\ engine.closes = 1
  /\ engine.clears = 1
  /\ Len(actors) = 3

ForwardedOnce(i) ==
  LET forwards == {n \in CallsOf("before_step") : calls[n].who = Val(metaDriveActor[i])}
      resets == {n \in CallsOf("_reset_control") : calls[n].who = i}
  IN /\ Cardinality(forwards) = 1
     /\ Cardinality(resets) = 1
     /\ \A n \in forwards, m \in resets : n < m

C6_Executed ==
  handler = "executeActions" =>
    /\ \A i \in Objects \ {1} : scene[i] \in {"car", "truck"} => ForwardedOnce(i)
    /\ \A n \in CallsOf("before_step") : calls[n].who # Val(metaDriveActor[1])

C6_Stepped ==
  handler = "step" =>
    /\ Cardinality(CallsOf("step")) = 1
    /\ \A n \in CallsOf("step") :
         \E m \in CallsOf("_reset_control") : n < m /\ calls[m].who = 1

\* C6: both halves, of executeActions and of step.
C6_ControlForwarding == C6_Executed /\ C6_Stepped

\* C7: the session is created and reset once in a simulation, by the first
\* createObjectInSimulator call, which binds the session's first engine object
\* to its object as the ego; defined_ego becomes true then and stays true,
\* defined_ego implies that client is set, and every later object is spawned
\* in that same session.
C7_State ==
  /\ engine.sessions <= 1
  /\ engine.resets <= 1
  /\ created >= 1 => defined_ego
  /\ ~defined_ego => (client = None /\ engine.sessions = 0 /\ created = 0)
  /\ defined_ego =>
       /\ client = Some(1)
       /\ engine.sessions = 1
       /\ engine.resets = 1
       /\ metaDriveActor[1] = Some(1)
       /\ actors[1].position = 1
  /\ \A a \in 2 .. Len(actors) : actors[a].session = 1 /\ actors[a].position = a
  /\ (handler = "createObjectInSimulator" /\ created >= 2) =>
       (CallsOf("DriveEnv") = {} /\ CallsOf("reset") = {})

C7_Step == defined_ego => defined_ego'

\* C7: one session per simulation, and defined_ego never goes back to false.
C7_OneSession == []C7_State /\ [][C7_Step]_vars

C7_Witness ==
  /\ pc = "running"
  /\ defined_ego
  /\ created = 3
  /\ Len(actors) = 3
  /\ engine.resets = 1
  /\ CallsOf("spawn_object") # {}

\* C8: createObjectInSimulator, called after the ego has been defined for an
\* object that is neither a vehicle nor a pedestrian, raises
\* SimulationCreationError, spawns nothing and leaves the object's reference,
\* defined_ego and the session as they were.
C8_Step ==
  (/\ created' = created + 1
   /\ defined_ego
   /\ scene[created'] \notin {"car", "truck", "pedestrian"}) =>
     /\ error' = ErrUnsupported
     /\ calls' = << >>
     /\ engine' = engine
     /\ actors' = actors
     /\ metaDriveActor' = metaDriveActor
     /\ defined_ego' = defined_ego
     /\ client' = client

\* C8: every call for an unsupported object raises and changes nothing.
C8_UnsupportedRaises == [][C8_Step]_vars

C8_Witness ==
  /\ error = ErrUnsupported
  /\ handler = "createObjectInSimulator"
  /\ created = 3
  /\ scene[3] = "prop"
  /\ defined_ego
  /\ Len(actors) = 2
  /\ metaDriveActor[3] = None

\* C9: get_reward returns -5 when the ego has no lane, whatever the crash
\* flags; otherwise to the reward of moving and of speed it adds -5 once when
\* any crash flag is set, +10 when none is set and the ego's x is at least
\* 300, and nothing else; the lane-keeping factor is within [0, 1].
C9_Reward ==
  reward # None =>
    LET r == Val(reward)
        crashed == sensed.crash_vehicle \/ sensed.crash_object \/ sensed.crash_sidewalk
    IN IF sensed.lane = None
       THEN r.value = -5 * RewardUnit
       ELSE /\ r.lateral_factor # None
            /\ Val(r.lateral_factor) >= 0
            /\ Val(r.lateral_factor) <= LaneWidth
            /\ LET side == IF sensed.road = "forward" THEN 1 ELSE -1
                   base == (100 * (sensed.position - sensed.last_position)
                              * Val(r.lateral_factor) + 7 * sensed.speed) * side
               IN r.value - base =
                    IF crashed THEN -5 * RewardUnit
                    ELSE IF sensed.x >= 300 THEN 10 * RewardUnit
                    ELSE 0

C9_Witness ==
  /\ reward # None
  /\ sensed.lane = Some(2)
  /\ sensed.crash_vehicle /\ sensed.crash_sidewalk
  /\ sensed.x = 300
  /\ sensed.road = "forward"
  /\ sensed.position = 1 /\ sensed.last_position = 0
  /\ Val(reward).value = 100 * 10 + 7 * sensed.speed - 5 * RewardUnit

\* C10: executeActions sets a pedestrian's walking direction and walking speed
\* from its heading and speed only while they are unset and never changes a
\* value that is set, and every executeActions call commands the pedestrian's
\* actor with the unit direction of the latched direction and the latched
\* speed, whatever the object's heading and speed have become.
Pedestrians == {i \in Objects \ {1} : scene[i] = "pedestrian"}

C10_State ==
  handler = "executeActions" =>
    \A i \in Pedestrians :
      /\ walking_direction[i] # None
      /\ walking_speed[i] # None
      /\ LET commands == {n \in CallsOf("set_velocity") :
                            calls[n].who = Val(metaDriveActor[i])}
             d == Val(walking_direction[i])
         IN /\ Cardinality(commands) = 1
            /\ \A n \in commands :
                 /\ calls[n].a = (IF d = 0 THEN 1 ELSE IF d = -2 THEN -1 ELSE 0)
                 /\ calls[n].b = (IF d = 1 THEN 1 ELSE IF d = -1 THEN -1 ELSE 0)
                 /\ calls[n].c = Val(walking_speed[i])

C10_Step ==
  \A i \in Pedestrians :
    /\ walking_direction[i] # None => walking_direction'[i] = walking_direction[i]
    /\ walking_speed[i] # None => walking_speed'[i] = walking_speed[i]
    /\ (walking_direction[i] = None /\ walking_direction'[i] # None) =>
         /\ handler' = "executeActions"
         /\ Val(walking_direction'[i]) = (IF heading[i] = 1 THEN -2 ELSE heading[i] + 1)
    /\ (walking_speed[i] = None /\ walking_speed'[i] # None) =>
         /\ handler' = "executeActions"
         /\ walking_speed'[i] = Some(speed[i])

====
